---- MODULE Spec2Model ----
(***************************************************************************)
(* gourmeet-mcp: the MCP tool handlers of src/pages/api/mcp/[[...path]].ts *)
(* (clampLimit, uniq, jsonText, enrichPosts and the tools registered by    *)
(* createServer) over a relational store reached through supabase-js, and  *)
(* the HTTP handler that creates a server and a transport per request.     *)
(*                                                                         *)
(* A tool call is a sequence of store round trips.  One action is one      *)
(* round trip together with all the synchronous code that runs until the   *)
(* next await (or until the handler returns or throws).  The store is      *)
(* owned externally: it may fail any fetch and other writers may change    *)
(* it between two round trips of the same call.                            *)
(***************************************************************************)
EXTENDS Integers, Sequences, FiniteSets, TLC

VARIABLES
    store,   \* the external relational store: profiles, places, posts, follows
    writes,  \* number of writes other clients have made to the store
    call,    \* the tool call in flight: tool, position, arguments, locals
    log,     \* the store fetches the call in flight has issued, in order
    resp,    \* the outcome of the last finished call
    conns,   \* the HTTP connections: request, handler position, objects, response
    cur      \* the connection whose tool call is the one in call, log and resp

vars == <<store, writes, call, log, resp, conns, cur>>

(***************************************************************************)
(* JavaScript values                                                       *)
(***************************************************************************)
\* null / undefined in a string-typed position
NULL == "null"
UNDEFINED == "undefined"
\* null in a row-typed position (author, place, data of a single-row lookup)
NullRow == [null |-> TRUE]
\* null in a text column (username, display_name); texts are tuples of characters
NullText == <<"NULL">>

\* filter(Boolean) on strings: null, undefined and "" are falsy
Truthy(s) == s # NULL /\ s # UNDEFINED /\ s # ""

(***************************************************************************)
(* Bounds of the model                                                     *)
(***************************************************************************)
\* numerators and denominators of the finite numbers given to clampLimit
ClampMaxNum == 45
ClampMaxDen == 2
\* writes other clients make to the store while the calls run
MaxWrites == 2
\* length of the lists of posts handed directly to enrichPosts
MaxLen == 3

(***************************************************************************)
(* Sequences                                                               *)
(***************************************************************************)
Range(s) == {s[i] : i \in 1..Len(s)}

Min(a, b) == IF a <= b THEN a ELSE b

\* Array.prototype.slice(0, n)
Slice(s, n) == SubSeq(s, 1, Min(n, Len(s)))

\* every ordering of a finite set, as sequences without repetition
Perms(S) ==
    {f \in [1..Cardinality(S) -> S] : \A i, j \in 1..Cardinality(S) : f[i] = f[j] => i = j}

\* [[...path]].ts:86  Array.from(new Set(arr)): first occurrences, in order
uniqFirst(arr) ==
    LET firsts == SelectSeq([i \in 1..Len(arr) |-> i],
                            LAMBDA i : \A j \in 1..(i - 1) : arr[j] # arr[i])
    IN [k \in 1..Len(firsts) |-> arr[firsts[k]]]

\* a uniq that forgets to de-duplicate
uniqIdentity(arr) == arr

uniq(arr) == uniqFirst(arr)

(***************************************************************************)
(* clampLimit                                                              *)
(***************************************************************************)
\* A JavaScript value given as limit:
\*   <<"undefined">>, <<"null">>, <<"boolean", b>>, <<"string", text>> with
\*   text a non-numeric string, <<"numstr", num, den>> a string that parses
\*   to num/den, <<"number", n>> with n a Number.
\* A Number is <<"nan">>, <<"inf">>, <<"ninf">> or <<"fin", num, den>>, den > 0.
Finite(num, den) == <<"fin", num, den>>
NaN == <<"nan">>
PosInf == <<"inf">>
NegInf == <<"ninf">>

\* Number(n)
ToNumber(n) ==
    CASE n[1] = "number" -> n[2]
      [] n[1] = "numstr" -> Finite(n[2], n[3])
      [] n[1] = "null" -> Finite(0, 1)
      [] n[1] = "boolean" -> IF n[2] THEN Finite(1, 1) ELSE Finite(0, 1)
      [] OTHER -> NaN      \* undefined, non-numeric string

IsFinite(v) == v[1] = "fin"

\* Math.floor of a finite number
Floor(v) == v[2] \div v[3]

\* [[...path]].ts:80  max = 20
MaxLimit == 20
\* [[...path]].ts:82  return 10
DefaultLimit == 10

\* [[...path]].ts:80-84
clampLimitMax(n, max) ==
    LET v == ToNumber(n)
    IN IF ~IsFinite(v) \/ v[2] <= 0 THEN DefaultLimit
       ELSE Min(Floor(v), max)

\* a clampLimit that forgets the upper bound
clampLimitNoMax(n) ==
    LET v == ToNumber(n)
    IN IF ~IsFinite(v) \/ v[2] <= 0 THEN DefaultLimit ELSE Floor(v)

clampLimit(n) == clampLimitMax(n, MaxLimit)

(***************************************************************************)
(* The store (external collaborator)                                       *)
(***************************************************************************)
\* Text columns are tuples of characters; ilike compares case-insensitively.
LowerChar(c) == IF c = "A" THEN "a" ELSE IF c = "B" THEN "b" ELSE c
Lower(text) == [i \in 1..Len(text) |-> LowerChar(text[i])]

\* column ILIKE '%query%' (queries without wildcard characters)
ILike(text, query) ==
    /\ text # NullText
    /\ \E i \in 1..(Len(text) - Len(query) + 1) :
           SubSeq(Lower(text), i, i + Len(query) - 1) = Lower(query)

Profile(id, username, display_name) ==
    [id |-> id, username |-> username, display_name |-> display_name, updated_at |-> 0]
Place(place_id, name) == [place_id |-> place_id, name |-> name]
Post(id, user_id, place_id, created_at) ==
    [id |-> id, user_id |-> user_id, place_id |-> place_id, created_at |-> created_at]
Follow(follower_id, followee_id, status, created_at) ==
    [follower_id |-> follower_id, followee_id |-> followee_id,
     status |-> status, created_at |-> created_at]

\* The store the calls start from.  u4 has no profile, pl2 is no place,
\* u3 follows nobody with an accepted edge, po2 and po3 share a timestamp.
\* (created_at is never null in these rows.)
BaseStore ==
    [profiles |-> {Profile("u1", <<"a", "n">>, <<"B">>),
                   Profile("u2", <<"b">>, <<"A", "n">>),
                   Profile("u3", <<"n", "a", "n">>, <<"A", "n", "n">>)},
     places   |-> {Place("pl1", <<"b", "a", "n">>)},
     posts    |-> {Post("po1", "u1", "pl1", 1),
                   Post("po2", "u2", "pl1", 2),
                   Post("po3", "u3", NULL, 2),
                   Post("po4", "u4", "pl2", 3),
                   Post("po5", "u3", "pl1", 4)},
     follows  |-> {Follow("u1", "u2", "accepted", 1),
                   Follow("u1", "u3", "pending", 2),
                   Follow("u2", "u1", "accepted", 3),
                   Follow("u3", "u1", "pending", 4),
                   Follow("u4", "u1", "accepted", 5)}]

DisplayNames == {<<"B">>, <<"A", "n">>}
Statuses == {"accepted", "pending"}

\* Another client rewrites a profile's display name.
UpdateProfile ==
    /\ writes < MaxWrites
    /\ \E p \in store.profiles, dn \in DisplayNames :
           /\ dn # p.display_name
           /\ store' = [store EXCEPT !.profiles = (@ \ {p}) \cup
                  {[p EXCEPT !.display_name = dn, !.updated_at = @ + 1]}]
    /\ writes' = writes + 1
    /\ UNCHANGED <<call, log, resp, conns, cur>>

\* Another client deletes a profile.
DeleteProfile ==
    /\ writes < MaxWrites
    /\ \E p \in store.profiles : store' = [store EXCEPT !.profiles = @ \ {p}]
    /\ writes' = writes + 1
    /\ UNCHANGED <<call, log, resp, conns, cur>>

\* A follow request is accepted, or an accepted edge goes back to pending.
SetFollowStatus ==
    /\ writes < MaxWrites
    /\ \E f \in store.follows, st \in Statuses :
           /\ st # f.status
           /\ store' = [store EXCEPT !.follows = (@ \ {f}) \cup {[f EXCEPT !.status = st]}]
    /\ writes' = writes + 1
    /\ UNCHANGED <<call, log, resp, conns, cur>>

\* Another client deletes a post.
DeletePost ==
    /\ writes < MaxWrites
    /\ \E p \in store.posts : store' = [store EXCEPT !.posts = @ \ {p}]
    /\ writes' = writes + 1
    /\ UNCHANGED <<call, log, resp, conns, cur>>

\* .maybeSingle(): the row, or null when no row matches
MaybeSingle(rows) == IF rows = {} THEN NullRow ELSE CHOOSE r \in rows : TRUE

\* .limit(n) with no .order(): any n of the matching rows, in any order
Unordered(rows, n) == {Slice(p, n) : p \in Perms(rows)}

\* .order("created_at", {ascending: false}).limit(n): ties in any order
NewestFirst(rows, n) ==
    {Slice(p, n) : p \in {q \in Perms(rows) :
        \A i, j \in 1..Len(q) : i < j => q[i].created_at >= q[j].created_at}}

\* the error a failed fetch on a table reports
StoreError(table) == [message |-> <<"store failure", table>>]

\* the rows of information_schema.columns
Catalog ==
    {[table_name |-> "posts", ordinal_position |-> 1, column_name |-> "id"],
     [table_name |-> "posts", ordinal_position |-> 2, column_name |-> "user_id"]}

\* the rows of a table at this moment
Snapshot(table) == IF table = "information_schema.columns" THEN Catalog ELSE store[table]

\* One fetch as the call saw it: the request, the store's answer, and (for
\* the record only) the rows the table held when the store answered.
Fetch(table, by, keys, status, limit, ok, data) ==
    [table |-> table, by |-> by, keys |-> keys, status |-> status,
     limit |-> limit, ok |-> ok, data |-> data, seen |-> Snapshot(table)]
\* the limit of a fetch: <<n>> for .limit(n), <<>> for none
Limit(n) == <<n>>
NoLimit == <<>>

(***************************************************************************)
(* Tool calls                                                              *)
(***************************************************************************)
UndefText == <<"UNDEFINED">>
\* !s for a text: "", null and undefined are falsy
TextTruthy(t) == t # <<>> /\ t # NullText /\ t # UndefText

NoArgs ==
    [id |-> UNDEFINED, username |-> UndefText, user_id |-> UNDEFINED,
     place_id |-> UNDEFINED, query |-> UndefText, limit |-> <<"undefined">>,
     posts |-> <<>>]

\* no call in flight; the locals of a finished call are gone
Idle ==
    [tool |-> "none", pc |-> "done", args |-> NoArgs, lim |-> 0,
     first |-> <<>>, posts |-> <<>>, userIds |-> <<>>, placeIds |-> <<>>,
     profilesById |-> <<>>, placesById |-> <<>>]

Begin(tool, args) == [Idle EXCEPT !.tool = tool, !.args = args, !.pc = "start"]
Done(c) == [Idle EXCEPT !.tool = c.tool, !.args = c.args, !.lim = c.lim]

NoResp == [kind |-> "none", content |-> <<>>, error |-> NullRow]

\* [[...path]].ts:88-90  JSON.stringify leaves out the properties that are
\* undefined; id and username are the optional inputs echoed by a handler.
IsUndefinedProperty(obj, k) ==
    \/ k = "id" /\ obj[k] = UNDEFINED
    \/ k = "username" /\ obj[k] = UndefText
jsonText(obj) ==
    <<"json", [k \in {x \in DOMAIN obj : ~IsUndefinedProperty(obj, x)} |-> obj[k]]>>

\* `Error: ${error.message}`
ErrorText(error) == <<"Error: ", error.message>>

\* { content: [{ type: "text", text }] }
Returned(text) ==
    [kind |-> "returned", content |-> <<[type |-> "text", text |-> text]>>,
     error |-> NullRow]
\* the async handler rejects with the error
Thrown(error) == [kind |-> "thrown", content |-> <<>>, error |-> error]
\* enrichPosts called directly returns its list
Value(v) == [kind |-> "value", content |-> v, error |-> NullRow]

IsErrorBlock(r) ==
    /\ r.kind = "returned"
    /\ Len(r.content) = 1
    /\ r.content[1].type = "text"
    /\ r.content[1].text[1] = "Error: "
IsJsonBlock(r) ==
    /\ r.kind = "returned"
    /\ Len(r.content) = 1
    /\ r.content[1].type = "text"
    /\ r.content[1].text[1] = "json"
JsonOf(r) == r.content[1].text[2]

(***************************************************************************)
(* enrichPosts                                                             *)
(***************************************************************************)
\* [[...path]].ts:142
enrichUserIds(posts) ==
    uniq(SelectSeq([i \in 1..Len(posts) |-> posts[i].user_id], Truthy))
\* [[...path]].ts:143
enrichPlaceIds(posts) ==
    uniq(SelectSeq([i \in 1..Len(posts) |-> posts[i].place_id], Truthy))

\* [[...path]].ts:156, 170  for (const r of data) byId[r.key] = r
\* (rows of one fetch have distinct primary keys)
ById(rows, key) ==
    [k \in {r[key] : r \in rows} |-> CHOOSE r \in rows : r[key] = k]

Lookup(byId, k) == IF k \in DOMAIN byId THEN byId[k] ELSE NullRow

\* [[...path]].ts:173-177  { ...p, author, place }
Attach(p, profilesById, placesById) ==
    [k \in DOMAIN p \cup {"author", "place"} |->
        IF k = "author" THEN Lookup(profilesById, p.user_id)
        ELSE IF k = "place"
             THEN (IF Truthy(p.place_id) THEN Lookup(placesById, p.place_id) ELSE NullRow)
        ELSE p[k]]

\* an enrichment that attaches the place of the first post to every post
AttachFirstPlace(posts, profilesById, placesById) ==
    [i \in 1..Len(posts) |->
        [Attach(posts[i], profilesById, placesById) EXCEPT
            !.place = Attach(posts[1], profilesById, placesById).place]]

enrichMap(posts, profilesById, placesById) ==
    [i \in 1..Len(posts) |-> Attach(posts[i], profilesById, placesById)]

\* what the caller of enrichPosts returns with the enriched list
\* [[...path]].ts:411, 440, 474, 627
ReturnEnriched(c, enriched) ==
    CASE c.tool = "posts.recent" ->
            Returned(jsonText([limit |-> c.lim, data |-> enriched]))
      [] c.tool = "posts.get" ->
            Returned(jsonText([id |-> c.args.id, data |-> enriched[1]]))
      [] c.tool = "posts.by_place" ->
            Returned(jsonText([place_id |-> c.args.place_id, limit |-> c.lim,
                               data |-> enriched]))
      [] c.tool = "feed.home" ->
            Returned(jsonText([user_id |-> c.args.user_id, limit |-> c.lim,
                               data |-> enriched]))
      [] OTHER -> Value(enriched)

\* The position of enrichPosts at `stage`: before the profiles block it awaits
\* the profiles fetch if userIds is not empty (line 147); before the places
\* block the places fetch if placeIds is not empty (line 161); else it maps
\* and returns.
EnrichPc(c, stage) ==
    IF stage = "profiles" /\ c.userIds # <<>> THEN "enrich.profiles"
    ELSE IF stage \in {"profiles", "places"} /\ c.placeIds # <<>> THEN "enrich.places"
    ELSE "enrich.return"

\* Runs enrichPosts from `stage` to its next await or to its return:
\* <<the call, the response>>.
EnrichRun(c, stage) ==
    LET pc == EnrichPc(c, stage)
    IN IF pc = "enrich.return"
       THEN <<Done(c), ReturnEnriched(c, enrichMap(c.posts, c.profilesById, c.placesById))>>
       ELSE <<[c EXCEPT !.pc = pc], NoResp>>

\* [[...path]].ts:138-144  entering enrichPosts(supabase, posts)
EnrichEnter(c, posts) ==
    EnrichRun([c EXCEPT !.posts = posts,
                        !.userIds = enrichUserIds(posts),
                        !.placeIds = enrichPlaceIds(posts)], "profiles")

\* [[...path]].ts:147-157  the profiles fetch answers
EnrichProfilesFetch ==
    /\ call.pc = "enrich.profiles"
    /\ \E ok \in BOOLEAN :
        LET rows == {r \in store.profiles : r.id \in Range(call.userIds)}
            f == Fetch("profiles", "id", call.userIds, "any", NoLimit, ok,
                       IF ok THEN rows ELSE {})
            out == EnrichRun([call EXCEPT !.profilesById = ById(rows, "id")], "places")
        IN /\ log' = Append(log, f)
           /\ IF ok THEN call' = out[1] /\ resp' = out[2]
              ELSE call' = Done(call) /\ resp' = Thrown(StoreError("profiles"))
    /\ UNCHANGED <<store, writes, conns, cur>>

\* [[...path]].ts:160-177  the places fetch answers
EnrichPlacesFetch ==
    /\ call.pc = "enrich.places"
    /\ \E ok \in BOOLEAN :
        LET rows == {r \in store.places : r.place_id \in Range(call.placeIds)}
            f == Fetch("places", "place_id", call.placeIds, "any", NoLimit, ok,
                       IF ok THEN rows ELSE {})
            out == EnrichRun([call EXCEPT !.placesById = ById(rows, "place_id")], "done")
        IN /\ log' = Append(log, f)
           /\ IF ok THEN call' = out[1] /\ resp' = out[2]
              ELSE call' = Done(call) /\ resp' = Thrown(StoreError("places"))
    /\ UNCHANGED <<store, writes, conns, cur>>

(***************************************************************************)
(* The inputs of the calls                                                 *)
(***************************************************************************)
ArgLimits ==
    {<<"undefined">>, <<"number", Finite(1, 2)>>, <<"number", Finite(1, 1)>>,
     <<"number", Finite(2, 1)>>}
ArgUserIds == {"u1", "u3", "u4"}
ArgPlaceIds == {"pl1", "pl9"}
ArgPostIds == {"po1", "po3", "po4", "po9"}
ArgQueries == {<<"a", "n">>, <<"b">>}
ArgProfileIds == {UNDEFINED, "u1", "u9"}
ArgUsernames == {UndefText, <<"b">>, <<"z">>}

(***************************************************************************)
(* ping, places.get, places.search, profiles.get                           *)
(***************************************************************************)
\* a reply that reports a lookup without a row as an error
ReplyNotFound(ok, table, obj) ==
    IF ~ok THEN Returned(ErrorText(StoreError(table)))
    ELSE IF obj.data = NullRow THEN Returned(<<"Error: ", <<"not found">>>>)
    ELSE Returned(jsonText(obj))

\* [[...path]].ts:260-261, 328-329, 436-437
\* if (error) return Error block; return jsonText(obj)
Reply(ok, table, obj) ==
    IF ~ok THEN Returned(ErrorText(StoreError(table)))
    ELSE Returned(jsonText(obj))

\* [[...path]].ts:194
Ping ==
    /\ call = Idle
    /\ call' = Done(Begin("ping", NoArgs))
    /\ log' = <<>>
    /\ resp' = Returned(<<"pong">>)
    /\ UNCHANGED <<store, writes, conns, cur>>

\* [[...path]].ts:251-262
PlacesGet ==
    /\ call = Idle
    /\ \E place_id \in ArgPlaceIds, ok \in BOOLEAN :
        LET c == Begin("places.get", [NoArgs EXCEPT !.place_id = place_id])
            data == MaybeSingle({r \in store.places : r.place_id = place_id})
        IN /\ call' = Done(c)
           /\ log' = <<Fetch("places", "place_id", <<place_id>>, "any", NoLimit, ok,
                             IF ok THEN data ELSE NullRow)>>
           /\ resp' = Reply(ok, "places", [place_id |-> place_id, data |-> data])
    /\ UNCHANGED <<store, writes, conns, cur>>

\* [[...path]].ts:280-292
PlacesSearch ==
    /\ call = Idle
    /\ \E query \in ArgQueries, limit \in ArgLimits, ok \in BOOLEAN :
        LET lim == clampLimit(limit)
            c == [Begin("places.search", [NoArgs EXCEPT !.query = query, !.limit = limit])
                    EXCEPT !.lim = lim]
        IN \E data \in Unordered({r \in store.places : ILike(r.name, query)}, lim) :
           /\ call' = Done(c)
           /\ log' = <<Fetch("places", "name", query, "any", Limit(lim), ok,
                             IF ok THEN data ELSE <<>>)>>
           /\ resp' = IF ~ok THEN Returned(ErrorText(StoreError("places")))
                      ELSE Returned(jsonText([query |-> query, limit |-> lim, data |-> data]))
    /\ UNCHANGED <<store, writes, conns, cur>>

\* [[...path]].ts:312-330
ProfilesGet ==
    /\ call = Idle
    /\ \E id \in ArgProfileIds, username \in ArgUsernames, ok \in BOOLEAN :
        LET c == Begin("profiles.get", [NoArgs EXCEPT !.id = id, !.username = username])
            byId == Truthy(id)
            data == MaybeSingle({r \in store.profiles :
                        IF byId THEN r.id = id ELSE r.username = username})
        IN /\ call' = Done(c)
           /\ IF ~Truthy(id) /\ ~TextTruthy(username)
              THEN /\ log' = <<>>
                   /\ resp' = Returned(<<"Error: ", <<"provide id or username">>>>)
              ELSE /\ log' = <<Fetch("profiles", IF byId THEN "id" ELSE "username",
                                     <<IF byId THEN id ELSE username>>, "any", NoLimit, ok,
                                     IF ok THEN data ELSE NullRow)>>
                   /\ resp' = Reply(ok, "profiles",
                                     [id |-> id, username |-> username, data |-> data])
    /\ UNCHANGED <<store, writes, conns, cur>>

(***************************************************************************)
(* profiles.search                                                         *)
(***************************************************************************)
\* [[...path]].ts:373-376  acc[row.id] = row on an object: a new key is added
\* after the keys present, an old key keeps its place and takes the new row.
\* An object is modelled as the sequence of its <<key, value>> entries in
\* Object.values order (profile ids are uuids, never integer-like keys).
AssignKey(acc, k, v) ==
    IF \E i \in 1..Len(acc) : acc[i][1] = k
    THEN [i \in 1..Len(acc) |-> IF acc[i][1] = k THEN <<k, v>> ELSE acc[i]]
    ELSE Append(acc, <<k, v>>)

RECURSIVE ReduceById(_)
ReduceById(rows) ==
    IF rows = <<>> THEN <<>>
    ELSE LET last == rows[Len(rows)]
         IN AssignKey(ReduceById(SubSeq(rows, 1, Len(rows) - 1)), last.id, last)

ObjectValues(acc) == [i \in 1..Len(acc) |-> acc[i][2]]

\* a merge that slices the concatenation without de-duplicating
MergeNoDedup(byUsername, byDisplay, lim) == Slice(byUsername \o byDisplay, lim)

\* [[...path]].ts:371-377
uniqById(byUsername, byDisplay, lim) ==
    Slice(ObjectValues(ReduceById(byUsername \o byDisplay)), lim)

\* [[...path]].ts:348-356  the username fetch answers
ProfilesSearchUsername ==
    /\ call = Idle
    /\ \E query \in ArgQueries, limit \in ArgLimits, ok \in BOOLEAN :
        LET lim == clampLimit(limit)
            c == [Begin("profiles.search", [NoArgs EXCEPT !.query = query, !.limit = limit])
                    EXCEPT !.lim = lim]
        IN \E data \in Unordered({r \in store.profiles : ILike(r.username, query)}, lim) :
           LET f == Fetch("profiles", "username", query, "any", Limit(lim), ok,
                          IF ok THEN data ELSE <<>>)
           IN /\ call' = [c EXCEPT !.pc = "search.display", !.first = <<f>>]
              /\ log' = <<f>>
              /\ resp' = NoResp
    /\ UNCHANGED <<store, writes, conns, cur>>

\* [[...path]].ts:358-380  the display-name fetch answers
ProfilesSearchDisplay ==
    /\ call.pc = "search.display"
    /\ \E ok \in BOOLEAN :
        \E data \in Unordered({r \in store.profiles :
                                  ILike(r.display_name, call.args.query)}, call.lim) :
           LET byUsername == call.first[1]
               f == Fetch("profiles", "display_name", call.args.query, "any",
                          Limit(call.lim), ok, IF ok THEN data ELSE <<>>)
           IN /\ call' = Done(call)
              /\ log' = Append(log, f)
              /\ resp' =
                    IF ~byUsername.ok THEN Returned(ErrorText(StoreError("profiles")))
                    ELSE IF ~ok THEN Returned(ErrorText(StoreError("profiles")))
                    ELSE Returned(jsonText(
                            [query |-> call.args.query, limit |-> call.lim,
                             data |-> uniqById(byUsername.data, data, call.lim)]))
    /\ UNCHANGED <<store, writes, conns, cur>>

(***************************************************************************)
(* posts.recent, posts.get, posts.by_place                                 *)
(***************************************************************************)
\* [[...path]].ts:397-412
PostsRecent ==
    /\ call = Idle
    /\ \E limit \in ArgLimits, ok \in BOOLEAN :
        LET lim == clampLimit(limit)
            c == [Begin("posts.recent", [NoArgs EXCEPT !.limit = limit]) EXCEPT !.lim = lim]
        IN \E data \in NewestFirst(store.posts, lim) :
           LET out == EnrichEnter(c, data)
           IN /\ log' = <<Fetch("posts", "none", <<>>, "any", Limit(lim), ok,
                                IF ok THEN data ELSE <<>>)>>
              /\ IF ok THEN call' = out[1] /\ resp' = out[2]
                 ELSE call' = Done(c) /\ resp' = Returned(ErrorText(StoreError("posts")))
    /\ UNCHANGED <<store, writes, conns, cur>>

\* [[...path]].ts:427-441
PostsGet ==
    /\ call = Idle
    /\ \E id \in ArgPostIds, ok \in BOOLEAN :
        LET c == Begin("posts.get", [NoArgs EXCEPT !.id = id])
            data == MaybeSingle({r \in store.posts : r.id = id})
            out == EnrichEnter(c, <<data>>)
        IN /\ log' = <<Fetch("posts", "id", <<id>>, "any", NoLimit, ok,
                             IF ok THEN data ELSE NullRow)>>
           /\ IF ~ok \/ data = NullRow
              THEN call' = Done(c)
                   /\ resp' = Reply(ok, "posts", [id |-> id, data |-> NullRow])
              ELSE call' = out[1] /\ resp' = out[2]
    /\ UNCHANGED <<store, writes, conns, cur>>

\* [[...path]].ts:459-475
PostsByPlace ==
    /\ call = Idle
    /\ \E place_id \in ArgPlaceIds, limit \in ArgLimits, ok \in BOOLEAN :
        LET lim == clampLimit(limit)
            c == [Begin("posts.by_place",
                        [NoArgs EXCEPT !.place_id = place_id, !.limit = limit])
                    EXCEPT !.lim = lim]
        IN \E data \in NewestFirst({r \in store.posts : r.place_id = place_id}, lim) :
           LET out == EnrichEnter(c, data)
           IN /\ log' = <<Fetch("posts", "place_id", <<place_id>>, "any", Limit(lim), ok,
                                IF ok THEN data ELSE <<>>)>>
              /\ IF ok THEN call' = out[1] /\ resp' = out[2]
                 ELSE call' = Done(c) /\ resp' = Returned(ErrorText(StoreError("posts")))
    /\ UNCHANGED <<store, writes, conns, cur>>

(***************************************************************************)
(* follows.followers, follows.following                                    *)
(***************************************************************************)
\* a follows query that forgets .eq("status", "accepted")
FollowsQueryAnyStatus(follows, side, user_id) == {f \in follows : f[side] = user_id}

\* [[...path]].ts:499-503, 549-553, 603-607
\* .from("follows").eq(side, user_id).eq("status", "accepted")
FollowsQuery(follows, side, user_id) ==
    {f \in follows : f[side] = user_id /\ f.status = "accepted"}

\* the side of the edge a tool filters on, and the side it resolves
FilterSide(tool) == IF tool = "follows.followers" THEN "followee_id" ELSE "follower_id"
OtherSide(tool) == IF tool = "follows.followers" THEN "follower_id" ELSE "followee_id"
RoleField(tool) == IF tool = "follows.followers" THEN "follower" ELSE "followee"

\* [[...path]].ts:522-525, 572-575  { ...r, follower | followee }
AttachProfile(tool, r, profilesById) ==
    [k \in DOMAIN r \cup {RoleField(tool)} |->
        IF k = RoleField(tool) THEN Lookup(profilesById, r[OtherSide(tool)]) ELSE r[k]]

ReturnFollows(c, data, profilesById) ==
    Returned(jsonText([user_id |-> c.args.user_id, limit |-> c.lim,
        data |-> [i \in 1..Len(data) |-> AttachProfile(c.tool, data[i], profilesById)]]))

\* The follows fetch of follows.followers / follows.following answers.
FollowsEdges(tool) ==
    /\ call = Idle
    /\ \E user_id \in ArgUserIds, limit \in ArgLimits, ok \in BOOLEAN :
        LET lim == clampLimit(limit)
            c == [Begin(tool, [NoArgs EXCEPT !.user_id = user_id, !.limit = limit])
                    EXCEPT !.lim = lim]
        IN \E data \in NewestFirst(FollowsQuery(store.follows, FilterSide(tool), user_id), lim) :
           LET other == OtherSide(tool)
               ids == uniq([i \in 1..Len(data) |-> data[i][other]])
           IN /\ log' = <<Fetch("follows", FilterSide(tool), <<user_id>>, "accepted",
                                Limit(lim), ok, IF ok THEN data ELSE <<>>)>>
              /\ IF ~ok
                 THEN call' = Done(c) /\ resp' = Returned(ErrorText(StoreError("follows")))
                 ELSE IF ids = <<>>
                 THEN call' = Done(c) /\ resp' = ReturnFollows(c, data, <<>>)
                 ELSE /\ call' = [c EXCEPT !.pc = "follows.profiles", !.first = data,
                                          !.userIds = ids]
                      /\ resp' = NoResp
    /\ UNCHANGED <<store, writes, conns, cur>>

\* [[...path]].ts:496-512
FollowsFollowers == FollowsEdges("follows.followers")
\* [[...path]].ts:546-562
FollowsFollowing == FollowsEdges("follows.following")

\* [[...path]].ts:512-527, 562-577  the profiles fetch answers
FollowsProfiles ==
    /\ call.pc = "follows.profiles"
    /\ \E ok \in BOOLEAN :
        LET rows == {r \in store.profiles : r.id \in Range(call.userIds)}
        IN /\ log' = Append(log, Fetch("profiles", "id", call.userIds, "any", NoLimit, ok,
                                       IF ok THEN rows ELSE {}))
           /\ call' = Done(call)
           /\ resp' = IF ~ok THEN Returned(ErrorText(StoreError("profiles")))
                      ELSE ReturnFollows(call, call.first, ById(rows, "id"))
    /\ UNCHANGED <<store, writes, conns, cur>>

(***************************************************************************)
(* feed.home                                                               *)
(***************************************************************************)
\* [[...path]].ts:608  .limit(200)
FollowFetchLimit == 200
\* [[...path]].ts:613  .slice(0, 200)
FeedAuthorCap == 200

\* a candidate set that puts the requesting user after the followees
feedUserIdsUserLast(user_id, fwData) ==
    LET followeeIds == uniq([i \in 1..Len(fwData) |-> fwData[i].followee_id])
    IN Slice(uniq(followeeIds \o <<user_id>>), FeedAuthorCap)

\* [[...path]].ts:612-613
feedUserIds(user_id, fwData) ==
    LET followeeIds == uniq([i \in 1..Len(fwData) |-> fwData[i].followee_id])
    IN Slice(uniq(<<user_id>> \o followeeIds), FeedAuthorCap)

\* [[...path]].ts:600-613  the follows fetch answers
FeedHomeFollows ==
    /\ call = Idle
    /\ \E user_id \in ArgUserIds, limit \in ArgLimits, ok \in BOOLEAN :
        LET lim == clampLimit(limit)
            c == [Begin("feed.home", [NoArgs EXCEPT !.user_id = user_id, !.limit = limit])
                    EXCEPT !.lim = lim]
        IN \E rows \in Unordered(FollowsQuery(store.follows, "follower_id", user_id),
                                FollowFetchLimit) :
           LET data == [i \in 1..Len(rows) |-> [followee_id |-> rows[i].followee_id]]
           IN /\ log' = <<Fetch("follows", "follower_id", <<user_id>>, "accepted",
                                Limit(FollowFetchLimit), ok, IF ok THEN data ELSE <<>>)>>
              /\ IF ~ok
                 THEN call' = Done(c) /\ resp' = Returned(ErrorText(StoreError("follows")))
                 ELSE /\ call' = [c EXCEPT !.pc = "feed.posts",
                                          !.first = feedUserIds(user_id, data)]
                      /\ resp' = NoResp
    /\ UNCHANGED <<store, writes, conns, cur>>

\* [[...path]].ts:615-627  the posts fetch answers
FeedHomePosts ==
    /\ call.pc = "feed.posts"
    /\ \E ok \in BOOLEAN :
        \E data \in NewestFirst({r \in store.posts : r.user_id \in Range(call.first)},
                                call.lim) :
           LET out == EnrichEnter(call, data)
           IN /\ log' = Append(log, Fetch("posts", "user_id", call.first, "any",
                                          Limit(call.lim), ok, IF ok THEN data ELSE <<>>))
              /\ IF ok THEN call' = out[1] /\ resp' = out[2]
                 ELSE call' = Done(call) /\ resp' = Returned(ErrorText(StoreError("posts")))
    /\ UNCHANGED <<store, writes, conns, cur>>

(***************************************************************************)
(* db.columns                                                              *)
(***************************************************************************)
ArgTables == {<<"posts">>, <<"nowhere">>}
\* [[...path]].ts:219-233
DbColumns ==
    /\ call = Idle
    /\ \E tables \in ArgTables, ok \in BOOLEAN :
        LET c == Begin("db.columns", NoArgs)
            rows == {r \in Catalog : r.table_name \in Range(tables)}
            data == CHOOSE q \in Perms(rows) :
                        \A i, j \in 1..Len(q) : i < j =>
                            q[i].ordinal_position < q[j].ordinal_position
        IN /\ call' = Done(c)
           /\ log' = <<Fetch("information_schema.columns", "table_name", tables, "any",
                             NoLimit, ok, IF ok THEN data ELSE <<>>)>>
           /\ resp' = IF ~ok
                      THEN Returned(ErrorText(StoreError("information_schema.columns")))
                      ELSE Returned(jsonText([tables |-> tables, data |-> data]))
    /\ UNCHANGED <<store, writes, conns, cur>>

\* The response of the finished call has been written; the server created
\* for the request, and with it everything the call held, is dropped.
\* [[...path]].ts:655-665
Respond ==
    /\ call.pc = "done"
    /\ call # Idle
    /\ call' = Idle
    /\ log' = <<>>
    /\ resp' = NoResp
    /\ UNCHANGED <<store, writes, conns, cur>>

(***************************************************************************)
(* The HTTP endpoint                                                       *)
(*                                                                         *)
(* handler(req, res) of pages/api/mcp/[[...path]].ts (route "pages") and   *)
(* the handler kept in app/api/mcp/route.ts (route "app").  One action is  *)
(* the code that runs between two awaits of the handler.  The connection   *)
(* belongs to the client: its close event fires once, at any moment from   *)
(* the arrival of the request on, and a listener registered after the      *)
(* event is never called.                                                  *)
(***************************************************************************)
Conns == {"c1", "c2"}

\* [[...path]].ts:646
NoContent == 204
\* app/api/mcp/route.ts:65
NotFound == 404
\* [[...path]].ts:651
MethodNotAllowed == 405
\* [[...path]].ts:668
InternalServerError == 500

Methods == {"GET", "POST", "DELETE", "OPTIONS", "PUT", UNDEFINED}
\* rpc: what the body asks of the transport, "tools/call" or "other"
Request(method, route, path0, env, rpc) ==
    [method |-> method, route |-> route, path0 |-> path0, env |-> env, rpc |-> rpc]
NoReq == Request(UNDEFINED, "none", "", FALSE, "other")

\* The requests of the model.  env: SUPABASE_URL and the service role key are
\* set; path0: the first segment of req.query.path ("" when there is none);
\* only a POST carries a tools/call.
Requests ==
    {Request(m, "pages", "", e, "other") : m \in Methods, e \in BOOLEAN}
    \cup {Request(m, "app", p, TRUE, "other") :
        m \in Methods, p \in {"", "oauth", ".well-known"}}
    \cup {Request("POST", "pages", "", TRUE, "tools/call"),
          Request("POST", "app", "", TRUE, "tools/call")}
\* the requests that call a tool over the store
CallRequests == {Request("POST", "pages", "", TRUE, "tools/call")}

NoRes == [status |-> 0, by |-> "none", text |-> <<>>, result |-> NoResp,
          headersSent |-> FALSE]
NoCtx == [call |-> Idle, log |-> <<>>, resp |-> NoResp]

\* a connection no request has arrived on
NoConn ==
    [req |-> NoReq, pc |-> "free",
     server |-> FALSE, client |-> FALSE, transport |-> FALSE, listener |-> FALSE,
     connected |-> FALSE, transportClosed |-> FALSE, serverClosed |-> FALSE,
     closed |-> FALSE, fault |-> "none", headersAtFault |-> FALSE,
     res |-> NoRes, ctx |-> NoCtx]

\* res.status(status).send(text), res.status(status).end()
Send(res, status, text) ==
    [res EXCEPT !.status = status, !.by = "handler", !.text = text, !.headersSent = TRUE]

\* the transport writes the headers of its own answer (not yet the body)
TransportHeaders(res) == [res EXCEPT !.status = 200, !.by = "transport", !.headersSent = TRUE]
\* the transport writes its answer; for tools/call it carries the tool's outcome
TransportSend(res, result) == [TransportHeaders(res) EXCEPT !.result = result]

\* [[...path]].ts:650, route.ts:70
Allowed == {"GET", "POST", "DELETE"}
\* route.ts:64
UnusedPaths == {"oauth", ".well-known"}

\* a dispatch without the method check
DispatchAnyMethod(req) ==
    IF req.method = "OPTIONS" THEN "preflight"
    ELSE IF req.route = "app" /\ req.path0 \in UnusedPaths THEN "unused"
    ELSE "serve"

\* [[...path]].ts:645-653, route.ts:55-74  the early returns of the handler
Dispatch(req) ==
    IF req.method = "OPTIONS" THEN "preflight"
    ELSE IF req.route = "app" /\ req.path0 \in UnusedPaths THEN "unused"
    ELSE IF req.method = UNDEFINED \/ req.method \notin Allowed THEN "refused"
    ELSE "serve"

\* the error a failing step throws
FaultOf(stage) == [message |-> <<"fault in", stage>>]

\* [[...path]].ts:666-669  catch (e): console.error(e), and a generic 500
\* unless the headers are out already
Catch(k, stage) ==
    [k EXCEPT !.pc = "returned", !.fault = stage,
              !.headersAtFault = k.res.headersSent,
              !.res = IF k.res.headersSent THEN @
                      ELSE Send(@, InternalServerError, <<"Internal Server Error">>)]

\* [[...path]].ts:180-182, 68-78  createServer(): new McpServer, then
\* getSupabase(), which throws when the environment lacks the url or the key.
\* route.ts:32-48  createMcpServer() makes no store client.
CreateServerThrows(req) == req.route = "pages" /\ ~req.env

\* [[...path]].ts:636-661, route.ts:52-85  handler(req, res) up to its first await
Entered(k) ==
    LET d == Dispatch(k.req)
    IN CASE d = "preflight" ->
              [k EXCEPT !.pc = "returned", !.res = Send(@, NoContent, <<>>)]
         [] d = "unused" ->
              [k EXCEPT !.pc = "returned", !.res = Send(@, NotFound, <<"Not Found">>)]
         [] d = "refused" ->
              [k EXCEPT !.pc = "returned",
                        !.res = Send(@, MethodNotAllowed, <<"Method Not Allowed">>)]
         [] OTHER ->
              IF CreateServerThrows(k.req)
              THEN [k EXCEPT !.pc = "rejected", !.server = TRUE, !.fault = "createServer",
                             !.headersAtFault = k.res.headersSent]
              ELSE [k EXCEPT !.pc = "connecting", !.server = TRUE,
                             !.client = (k.req.route = "pages"),
                             !.transport = TRUE, !.listener = TRUE]

\* a close listener that closes whatever any call has registered
CapturedShared(c) == {d \in Conns : conns[d].listener}

\* [[...path]].ts:655-661  the listener closes over the transport and the
\* server of its own invocation
Captured(c) == {c}

\* [[...path]].ts:659-660  transport.close(); server.close();
CloseBoth(k) == [k EXCEPT !.transportClosed = TRUE, !.serverClosed = TRUE]

\* A request arrives on a connection.
ArriveOf(c, reqs) ==
    /\ conns[c].pc = "free"
    /\ \E req \in reqs :
           conns' = [conns EXCEPT ![c] = [NoConn EXCEPT !.req = req, !.pc = "arrived"]]
    /\ UNCHANGED <<store, writes, call, log, resp, cur>>
Arrive(c) == ArriveOf(c, Requests)
ArriveCall(c) == ArriveOf(c, CallRequests)

\* [[...path]].ts:634-663  the handler runs up to await server.connect
HandlerEnter(c) ==
    /\ conns[c].pc = "arrived"
    /\ conns' = [conns EXCEPT ![c] = Entered(@)]
    /\ UNCHANGED <<store, writes, call, log, resp, cur>>

\* [[...path]].ts:664  await server.connect(transport) settles
Connect(c) ==
    /\ conns[c].pc = "connecting"
    /\ \E ok \in BOOLEAN :
           conns' = [conns EXCEPT ![c] =
                        IF ok THEN [@ EXCEPT !.pc = "handling", !.connected = TRUE]
                        ELSE Catch(@, "connect")]
    /\ UNCHANGED <<store, writes, call, log, resp, cur>>

\* how await transport.handleRequest(req, res) settles
Outcomes == {"ok", "fault", "faultAfterHeaders"}
Settled(k, outcome, result) ==
    CASE outcome = "ok" -> [k EXCEPT !.pc = "returned", !.res = TransportSend(@, result)]
      [] outcome = "fault" -> Catch(k, "handleRequest")
      [] OTHER -> Catch([k EXCEPT !.res = TransportHeaders(@)], "handleRequest")

\* [[...path]].ts:665  handleRequest of a request that calls no tool
HandleRequestOther(c) ==
    /\ conns[c].pc = "handling"
    /\ conns[c].req.rpc = "other"
    /\ \E outcome \in Outcomes :
           conns' = [conns EXCEPT ![c] = Settled(@, outcome, NoResp)]
    /\ UNCHANGED <<store, writes, call, log, resp, cur>>

\* the handler of connection cur is inside handleRequest of a tools/call
ToolTurn == conns[cur].pc = "handling" /\ conns[cur].req.rpc = "tools/call"
\* only [[...path]].ts:180-632 registers the tools over the store
StoreToolTurn == ToolTurn /\ conns[cur].req.route = "pages"

\* [[...path]].ts:665  handleRequest of a tools/call whose tool has finished
HandleRequestTool ==
    /\ ToolTurn
    /\ call.pc = "done"
    /\ call # Idle
    /\ \E outcome \in Outcomes :
           conns' = [conns EXCEPT ![cur] = Settled(@, outcome, resp)]
    /\ UNCHANGED <<store, writes, call, log, resp, cur>>

\* [[...path]].ts:658-661  the close event of the connection
Close(c) ==
    /\ conns[c].pc # "free"
    /\ ~conns[c].closed
    /\ conns' = [d \in Conns |->
                    LET k == IF d = c THEN [conns[d] EXCEPT !.closed = TRUE] ELSE conns[d]
                    IN IF conns[c].listener /\ d \in Captured(c) THEN CloseBoth(k) ELSE k]
    /\ UNCHANGED <<store, writes, call, log, resp, cur>>

\* The event loop turns to the tool call of another connection: the call it
\* leaves keeps its locals, its fetches and its outcome.
Switch(c) ==
    /\ c # cur
    /\ conns[c].pc = "handling"
    /\ conns[c].req.rpc = "tools/call"
    /\ conns' = [conns EXCEPT ![cur].ctx = [call |-> call, log |-> log, resp |-> resp],
                              ![c].ctx = NoCtx]
    /\ call' = conns[c].ctx.call
    /\ log' = conns[c].ctx.log
    /\ resp' = conns[c].ctx.resp
    /\ cur' = c
    /\ UNCHANGED <<store, writes>>

\* the tool call of a connection
CtxOf(c) == IF c = cur THEN [call |-> call, log |-> log, resp |-> resp] ELSE conns[c].ctx

(***************************************************************************)
(* The tool calls over a store other clients write to                      *)
(***************************************************************************)
Init ==
    /\ store = BaseStore
    /\ writes = 0
    /\ call = Idle
    /\ log = <<>>
    /\ resp = NoResp
    /\ conns = [c \in Conns |-> NoConn]
    /\ cur = "c1"

Next ==
    \/ Ping
    \/ DbColumns
    \/ PlacesGet
    \/ PlacesSearch
    \/ ProfilesGet
    \/ ProfilesSearchUsername
    \/ ProfilesSearchDisplay
    \/ PostsRecent
    \/ PostsGet
    \/ PostsByPlace
    \/ FollowsFollowers
    \/ FollowsFollowing
    \/ FollowsProfiles
    \/ FeedHomeFollows
    \/ FeedHomePosts
    \/ EnrichProfilesFetch
    \/ EnrichPlacesFetch
    \/ Respond
    \/ UpdateProfile
    \/ DeleteProfile
    \/ SetFollowStatus
    \/ DeletePost

Spec == Init /\ [][Next]_vars

(***************************************************************************)
(* clampLimit on its own                                                   *)
(***************************************************************************)
ClampInputs ==
    {<<"undefined">>, <<"null">>, <<"boolean", TRUE>>, <<"boolean", FALSE>>,
     <<"string", "abc">>, <<"number", NaN>>, <<"number", PosInf>>, <<"number", NegInf>>}
    \cup {<<"number", Finite(n, d)>> : n \in (-ClampMaxNum)..ClampMaxNum, d \in 1..ClampMaxDen}
    \cup {<<"numstr", n, d>> : n \in (-ClampMaxNum)..ClampMaxNum, d \in 1..ClampMaxDen}

\* clampLimit(n) is called and returns
ClampLimitCall ==
    /\ call = Idle
    /\ \E n \in ClampInputs :
        /\ call' = Done([Begin("clampLimit", [NoArgs EXCEPT !.limit = n])
                            EXCEPT !.lim = clampLimit(n)])
        /\ resp' = Value(clampLimit(n))
    /\ log' = <<>>
    /\ UNCHANGED <<store, writes, conns, cur>>

NextClamp == ClampLimitCall \/ Respond

SpecClamp == Init /\ [][NextClamp]_vars

(***************************************************************************)
(* enrichPosts on its own                                                  *)
(***************************************************************************)
EnrichUserIds == {"", "u1", "u4"}
EnrichPlaceIds == {NULL, "", "pl1", "pl2"}
PostIdAt(i) == <<"po1", "po2", "po3", "po4", "po5", "po6">>[i]

PostLists ==
    UNION {{[i \in 1..n |-> Post(PostIdAt(i), us[i], pls[i], i)] :
                us \in [1..n -> EnrichUserIds], pls \in [1..n -> EnrichPlaceIds]} :
           n \in 0..MaxLen}

\* enrichPosts(supabase, posts) is called
EnrichPostsCall ==
    /\ call = Idle
    /\ \E posts \in PostLists :
        LET out == EnrichEnter(Begin("enrichPosts", [NoArgs EXCEPT !.posts = posts]), posts)
        IN call' = out[1] /\ resp' = out[2]
    /\ log' = <<>>
    /\ UNCHANGED <<store, writes, conns, cur>>

NextEnrich ==
    \/ EnrichPostsCall
    \/ EnrichProfilesFetch
    \/ EnrichPlacesFetch
    \/ Respond

SpecEnrich == Init /\ [][NextEnrich]_vars

(***************************************************************************)
(* The endpoint: two connections, their tool calls interleaved             *)
(***************************************************************************)
HttpPing == ToolTurn /\ Ping

NextHttp ==
    \/ \E c \in Conns : Arrive(c)
    \/ \E c \in Conns : HandlerEnter(c)
    \/ \E c \in Conns : Connect(c)
    \/ \E c \in Conns : HandleRequestOther(c)
    \/ \E c \in Conns : Close(c)
    \/ \E c \in Conns : Switch(c)
    \/ HandleRequestTool
    \/ HttpPing

SpecHttp == Init /\ [][NextHttp]_vars

(***************************************************************************)
(* Tool calls on two connections at once                                   *)
(***************************************************************************)
\* the inputs of the interleaved calls
CallPostIds == {"po1", "po9"}

CallPostsGet == StoreToolTurn /\ PostsGet /\ call'.args.id \in CallPostIds
CallEnrichProfilesFetch == StoreToolTurn /\ EnrichProfilesFetch
CallEnrichPlacesFetch == StoreToolTurn /\ EnrichPlacesFetch

NextCalls ==
    \/ \E c \in Conns : ArriveCall(c)
    \/ \E c \in Conns : HandlerEnter(c)
    \/ \E c \in Conns : Connect(c)
    \/ \E c \in Conns : Close(c)
    \/ \E c \in Conns : Switch(c)
    \/ HandleRequestTool
    \/ HttpPing
    \/ CallPostsGet
    \/ CallEnrichProfilesFetch
    \/ CallEnrichPlacesFetch
    \/ DeleteProfile

SpecCalls == Init /\ [][NextCalls]_vars

(***************************************************************************)
(* feed.home and its candidate author set on follows results of any size   *)
(***************************************************************************)
\* user ids of the large follows results: the requesting user and followees
AuthorId(i) == <<"u", i>>
FeedUser == AuthorId(0)
\* The rows a follows fetch may answer with: every followee once; the same
\* with the user following themself in the last row; every followee twice.
FollowShapes == {"distinct", "self", "pairs"}
FollowRows(n, shape) ==
    [i \in 1..n |->
        [followee_id |->
            CASE shape = "distinct" -> AuthorId(i)
              [] shape = "self" -> IF i = n THEN FeedUser ELSE AuthorId(i)
              [] OTHER -> AuthorId((i + 1) \div 2)]]

\* [[...path]].ts:612-613 run on the answer of the follows fetch of line 603-608
FeedUserIdsCall ==
    /\ call = Idle
    /\ \E n \in 0..FollowFetchLimit, shape \in FollowShapes :
        LET fwData == FollowRows(n, shape)
        IN /\ call' = Done(Begin("feedUserIds", [NoArgs EXCEPT !.posts = fwData]))
           /\ resp' = Value(feedUserIds(FeedUser, fwData))
    /\ log' = <<>>
    /\ UNCHANGED <<store, writes, conns, cur>>

NextFeed ==
    \/ FeedUserIdsCall
    \/ FeedHomeFollows
    \/ FeedHomePosts
    \/ EnrichProfilesFetch
    \/ EnrichPlacesFetch
    \/ Respond
    \/ SetFollowStatus

SpecFeed == Init /\ [][NextFeed]_vars

(***************************************************************************)
(* Properties                                                              *)
(***************************************************************************)
NoDuplicates(seq) == \A i, j \in 1..Len(seq) : seq[i] = seq[j] => i = j
OneOrNull(rows) == IF rows = {} THEN NullRow ELSE CHOOSE r \in rows : TRUE
FetchesOn(table) == SelectSeq(log, LAMBDA f : f.table = table)
AllFetchesOk == \A i \in 1..Len(log) : log[i].ok
Finished(tool) == call.tool = tool /\ call.pc = "done"

\* the fetches on `table` are: none if keys is empty, else exactly one,
\* filtered by exactly the keys, each named once
OneBatchedFetch(table, keys) ==
    LET fs == FetchesOn(table)
    IN IF keys = {} THEN fs = <<>>
       ELSE Len(fs) = 1 /\ Range(fs[1].keys) = keys /\ NoDuplicates(fs[1].keys)

UserIdsOf(posts) == {posts[i].user_id : i \in 1..Len(posts)}
PlaceIdsOf(posts) == {posts[i].place_id : i \in 1..Len(posts)}

\* C1 as stated: whenever enrichPosts has finished, it issued exactly one
\* profiles fetch if the set of non-empty user_id values is not empty (else
\* none) and exactly one places fetch if the set of non-null place_id values
\* is not empty (else none), each filtered by exactly that set.
C1_AsStated ==
    Finished("enrichPosts") =>
        /\ OneBatchedFetch("profiles", UserIdsOf(call.args.posts) \ {""})
        /\ OneBatchedFetch("places", PlaceIdsOf(call.args.posts) \ {NULL})

\* C1 amended: whenever enrichPosts has finished, it issued exactly one
\* profiles fetch if the set of non-empty user_id values is not empty (else
\* none); exactly one places fetch if the set of place_id values that are
\* neither null nor the empty string is not empty and the profiles fetch did
\* not fail (else none); each fetch is filtered by exactly that set, and no
\* other fetch is issued, whatever the number of posts.
C1_BatchedFetches ==
    Finished("enrichPosts") =>
        LET profilesFailed == \E i \in 1..Len(log) : log[i].table = "profiles" /\ ~log[i].ok
        IN /\ OneBatchedFetch("profiles", UserIdsOf(call.args.posts) \ {""})
           /\ OneBatchedFetch("places",
                  IF profilesFailed THEN {} ELSE PlaceIdsOf(call.args.posts) \ {NULL, ""})
           /\ Len(log) = Len(FetchesOn("profiles")) + Len(FetchesOn("places"))

\* three posts, two of them with the same author and the same place: two fetches
C1_Witness ==
    /\ Finished("enrichPosts")
    /\ Len(call.args.posts) = 3
    /\ call.args.posts[1].user_id = "u1" /\ call.args.posts[2].user_id = "u1"
    /\ call.args.posts[1].place_id = "pl1" /\ call.args.posts[3].place_id = "pl1"
    /\ Len(log) = 2
    /\ AllFetchesOk

FetchedRows(table) == UNION {log[i].data : i \in {j \in 1..Len(log) : log[j].table = table}}

\* C2: when enrichPosts has finished and no fetch failed, it returned (did
\* not throw) a list as long as its input; record i has every field of input
\* record i unchanged, author = the fetched profile with id = user_id or null
\* if there is none, and place = the fetched place with that place_id, or
\* null if the post has no place_id or no such place was fetched.
C2_EnrichedRecords ==
    (Finished("enrichPosts") /\ AllFetchesOk) =>
        /\ resp.kind = "value"
        /\ LET in == call.args.posts
               out == resp.content
           IN /\ Len(out) = Len(in)
              /\ \A i \in 1..Len(in) :
                    /\ DOMAIN out[i] = DOMAIN in[i] \cup {"author", "place"}
                    /\ \A k \in DOMAIN in[i] : out[i][k] = in[i][k]
                    /\ out[i].author =
                          OneOrNull({r \in FetchedRows("profiles") : r.id = in[i].user_id})
                    /\ out[i].place =
                          IF in[i].place_id = NULL THEN NullRow
                          ELSE OneOrNull({r \in FetchedRows("places") :
                                             r.place_id = in[i].place_id})

\* a list with a found author and place, an author without profile and a
\* place reference without place
C2_Witness ==
    /\ Finished("enrichPosts") /\ AllFetchesOk /\ resp.kind = "value"
    /\ Len(resp.content) = 3
    /\ resp.content[1].user_id = "u1" /\ resp.content[1].author # NullRow
    /\ resp.content[1].place_id = "pl1" /\ resp.content[1].place # NullRow
    /\ resp.content[2].user_id = "u4" /\ resp.content[2].author = NullRow
    /\ resp.content[3].place_id = "pl2" /\ resp.content[3].place = NullRow

\* C3 as stated: for every limit input, clampLimit returns an integer in 1..20.
C3_AsStated == Finished("clampLimit") => resp.content \in 1..20

\* the value of the input as a number: below, at or above a bound
InputNumber == ToNumber(call.args.limit)
InputIsNaN == InputNumber = NaN
InputAtMostZero == InputNumber = NegInf \/ (IsFinite(InputNumber) /\ InputNumber[2] <= 0)
InputAbove(b) == InputNumber = PosInf \/ (IsFinite(InputNumber) /\ InputNumber[2] > b * InputNumber[3])

\* C4 as stated: clampLimit maps negative, zero, non-numeric and missing
\* inputs to 10, every value above 20 to 20, and every other value to its floor.
C4_AsStated ==
    Finished("clampLimit") =>
        IF InputIsNaN \/ InputAtMostZero THEN resp.content = 10
        ELSE IF InputAbove(20) THEN resp.content = 20
        ELSE resp.content = Floor(InputNumber)

\* C4 amended: clampLimit maps negative, zero, non-numeric, missing and
\* non-finite inputs (+Infinity too) to 10, every finite value above 20 to
\* 20, and every other value to its floor.
C4_ClampValues ==
    Finished("clampLimit") =>
        IF InputIsNaN \/ InputAtMostZero \/ ~IsFinite(InputNumber) THEN resp.content = 10
        ELSE IF InputAbove(20) THEN resp.content = 20
        ELSE resp.content = Floor(InputNumber)

\* 20.5 is clamped to 20
C4_Witness ==
    /\ Finished("clampLimit")
    /\ call.args.limit = <<"number", Finite(41, 2)>>
    /\ resp.content = 20

IdsOf(rows) == {rows[i].id : i \in 1..Len(rows)}
ResultData == JsonOf(resp).data

\* C5: when profiles.search has finished and both fetches succeeded, its
\* result holds each profile id at most once, has at most lim rows (lim the
\* clamped limit), and every profile the username fetch returned stands
\* before every profile only the display-name fetch returned.
C5_SearchMerge ==
    (Finished("profiles.search") /\ AllFetchesOk) =>
        /\ IsJsonBlock(resp)
        /\ call.lim = clampLimit(call.args.limit)
        /\ LET data == ResultData
               byUsername == IdsOf(log[1].data)
               byDisplay == IdsOf(log[2].data)
           IN /\ \A i, j \in 1..Len(data) : data[i].id = data[j].id => i = j
              /\ Len(data) <= call.lim
              /\ \A i, j \in 1..Len(data) :
                    (data[i].id \in byUsername /\ data[j].id \in byDisplay \ byUsername)
                        => i < j

\* a profile matched by both fetches, and a display-name-only match after the
\* username matches
C5_Witness ==
    /\ Finished("profiles.search") /\ AllFetchesOk /\ IsJsonBlock(resp)
    /\ IdsOf(log[1].data) \cap IdsOf(log[2].data) # {}
    /\ Len(ResultData) = 3
    /\ ResultData[3].id \in IdsOf(log[2].data) \ IdsOf(log[1].data)

\* C6 as stated: when a profile id is in both fetches of profiles.search, the
\* row of the result is the row the username fetch returned.
C6_AsStated ==
    (Finished("profiles.search") /\ AllFetchesOk) =>
        \A i \in 1..Len(ResultData) : \A k \in 1..Len(log[1].data) :
            log[1].data[k].id = ResultData[i].id => ResultData[i] = log[1].data[k]

\* C7 as stated: a handler that has finished after one of its store fetches
\* failed has returned a text block "Error: " + the store's message.
C7_AsStated ==
    (call.pc = "done" /\ call # Idle /\ ~AllFetchesOk) =>
        /\ IsErrorBlock(resp)
        /\ \E i \in 1..Len(log) :
              ~log[i].ok /\ resp.content[1].text[2] = StoreError(log[i].table).message

AcceptedFollowees(follows, u) ==
    {f.followee_id : f \in {g \in follows : g.follower_id = u /\ g.status = "accepted"}}

\* C8: when feed.home(u, limit) has finished with every fetch succeeding, it
\* returned a JSON block, and if u had no accepted following edge when the
\* follows fetch was answered, the result holds only posts of u, newest
\* first, at most lim of them.
C8_FeedOfOwnPosts ==
    (Finished("feed.home") /\ AllFetchesOk) =>
        /\ IsJsonBlock(resp)
        /\ AcceptedFollowees(log[1].seen, call.args.user_id) = {} =>
              LET data == ResultData
              IN /\ \A i \in 1..Len(data) : data[i].user_id = call.args.user_id
                 /\ \A i, j \in 1..Len(data) :
                       i < j => data[i].created_at >= data[j].created_at
                 /\ Len(data) <= call.lim

\* u3 has only a pending edge and gets its own two posts, newest first
C8_Witness ==
    /\ Finished("feed.home") /\ AllFetchesOk /\ IsJsonBlock(resp)
    /\ call.args.user_id = "u3"
    /\ \E f \in log[1].seen : f.follower_id = "u3" /\ f.status = "pending"
    /\ AcceptedFollowees(log[1].seen, "u3") = {}
    /\ Len(ResultData) = 2
    /\ ResultData[1].created_at > ResultData[2].created_at

\* C9: every edge in a follows.followers / follows.following result was an
\* accepted edge of the user when the follows fetch was answered, and the
\* authors feed.home asks posts for are the user and followees of edges that
\* were accepted then.
C9_AcceptedEdgesOnly ==
    /\ (call.tool \in {"follows.followers", "follows.following"}
            /\ call.pc = "done" /\ IsJsonBlock(resp)) =>
          \A i \in 1..Len(ResultData) :
              \E f \in log[1].seen :
                  /\ f.status = "accepted"
                  /\ f[FilterSide(call.tool)] = call.args.user_id
                  /\ f.follower_id = ResultData[i].follower_id
                  /\ f.followee_id = ResultData[i].followee_id
                  /\ ResultData[i].status = "accepted"
    /\ (call.tool = "feed.home" /\ Len(log) >= 2) =>
          Range(log[2].keys) \subseteq
              {call.args.user_id} \cup AcceptedFollowees(log[1].seen, call.args.user_id)

\* u1 has an accepted and a pending follower; the result holds the accepted one
C9_Witness ==
    /\ Finished("follows.followers") /\ IsJsonBlock(resp)
    /\ call.args.user_id = "u1"
    /\ \E f \in log[1].seen : f.followee_id = "u1" /\ f.status = "pending"
    /\ Len(ResultData) = 2

GetTools == {"places.get", "profiles.get", "posts.get"}

\* C10: when places.get, profiles.get or posts.get has finished, its lookup
\* succeeded and no row had the key, it returned a JSON block with data:
\* null, not an "Error: " block; posts.get then issued no further fetch.
C10_NotFoundIsNull ==
    (call.tool \in GetTools /\ call.pc = "done" /\ Len(log) >= 1 /\ log[1].ok
        /\ \A r \in log[1].seen : r[log[1].by] # log[1].keys[1]) =>
        /\ IsJsonBlock(resp)
        /\ ~IsErrorBlock(resp)
        /\ ResultData = NullRow
        /\ call.tool = "posts.get" => Len(log) = 1

\* posts.get of an unknown id
C10_Witness ==
    /\ Finished("posts.get")
    /\ call.args.id = "po9"
    /\ log[1].ok
    /\ IsJsonBlock(resp) /\ ResultData = NullRow
    /\ Len(log) = 1

\* the handler of the connection has run up to its first await or its return
HandlerRan(k) == k.pc \notin {"free", "arrived"}
\* no server, store client or transport was created and no session opened
NothingCreated(k) == ~k.server /\ ~k.client /\ ~k.transport /\ ~k.connected
\* the handler itself answered with this status and body
Answered(k, status, text) ==
    k.res.by = "handler" /\ k.res.status = status /\ k.res.text = text
UnusedPath(k) == k.req.route = "app" /\ k.req.path0 \in UnusedPaths

\* C11 as stated: once the handler has run, a server or transport exists
\* only if the method is GET, POST or DELETE; OPTIONS was answered 204 with
\* an empty body and any other or missing method 405, and in both cases no
\* server, transport or store client was created and no session opened.
C11_AsStated ==
    \A c \in Conns :
        LET k == conns[c]
        IN HandlerRan(k) =>
            /\ (k.server \/ k.transport) => k.req.method \in Allowed
            /\ k.req.method = "OPTIONS" =>
                  Answered(k, NoContent, <<>>) /\ NothingCreated(k)
            /\ k.req.method \notin (Allowed \cup {"OPTIONS"}) =>
                  k.res.status = MethodNotAllowed /\ NothingCreated(k)

\* C11 amended: once the handler has run, a server or transport exists only
\* if the method is GET, POST or DELETE; OPTIONS was answered 204 with an
\* empty body; in app/api/mcp/route.ts every other request whose first path
\* segment is oauth or .well-known was answered 404 "Not Found", whatever
\* its method; any other request with another or a missing method was
\* answered 405 "Method Not Allowed"; in all three cases no server,
\* transport or store client was created and no session opened.
C11_MethodDispatch ==
    \A c \in Conns :
        LET k == conns[c]
        IN HandlerRan(k) =>
            /\ (k.server \/ k.transport) => k.req.method \in Allowed
            /\ k.req.method = "OPTIONS" =>
                  Answered(k, NoContent, <<>>) /\ NothingCreated(k)
            /\ (k.req.method # "OPTIONS" /\ UnusedPath(k)) =>
                  Answered(k, NotFound, <<"Not Found">>) /\ NothingCreated(k)
            /\ (k.req.method \notin (Allowed \cup {"OPTIONS"}) /\ ~UnusedPath(k)) =>
                  Answered(k, MethodNotAllowed, <<"Method Not Allowed">>)
                      /\ NothingCreated(k)

\* a PUT refused with 405 and nothing created, next to a POST that was served
C11_Witness ==
    /\ conns["c1"].req.method = "PUT"
    /\ Answered(conns["c1"], MethodNotAllowed, <<"Method Not Allowed">>)
    /\ NothingCreated(conns["c1"])
    /\ conns["c2"].req.method = "POST"
    /\ conns["c2"].server /\ conns["c2"].transport /\ conns["c2"].connected

\* the call created a server and a transport that have not both been closed
LeftOpen(k) == k.server /\ k.transport /\ ~(k.transportClosed /\ k.serverClosed)

\* C12 as stated: for every call that created a server and a transport, once
\* its connection has closed, transport.close and server.close have both
\* been invoked, so no closed connection leaves a transport or server open.
C12_AsStated ==
    \A c \in Conns : conns[c].closed => ~LeftOpen(conns[c])

\* the tool call of a connection has finished
CallDone(x) == x.call.pc = "done" /\ x.call.tool # "none"
\* the fetches a call issued, in order
Asked(fetches) ==
    [i \in 1..Len(fetches) |->
        <<fetches[i].table, fetches[i].by, fetches[i].keys, fetches[i].status,
          fetches[i].limit>>]
\* what the store answered to the fetches of a call, in order
Answers(fetches) == [i \in 1..Len(fetches) |-> <<fetches[i].ok, fetches[i].data>>]

C14_AsStated ==
    Finished("profiles.get") =>
        LET hasId == call.args.id # UNDEFINED
            hasUsername == call.args.username # UndefText
        IN IF hasId # hasUsername
           THEN /\ Len(log) = 1
                /\ IF hasId
                   THEN log[1].by = "id" /\ log[1].keys = <<call.args.id>>
                   ELSE log[1].by = "username" /\ log[1].keys = <<call.args.username>>
           ELSE IsErrorBlock(resp) /\ log = <<>>

\* C16 as stated: for every call in which creating the server, connect or
\* handleRequest faulted, the handler sent status 500 with the body
\* "Internal Server Error" if and only if no headers had been sent when the
\* fault was raised, the fault's message is not in the response, and once
\* the connection has closed no transport or server of the call is open.
C16_AsStated ==
    \A c \in Conns :
        LET k == conns[c]
        IN k.fault # "none" =>
            /\ Answered(k, InternalServerError, <<"Internal Server Error">>)
                   <=> ~k.headersAtFault
            /\ k.res.text # FaultOf(k.fault).message
            /\ k.closed => ~LeftOpen(k)

\* the candidate set ids for user u: no duplicate, at most 200 members, u
\* among them, every other member one of the followees
CandidateSet(ids, u, followees) ==
    /\ Cardinality(Range(ids)) = Len(ids)
    /\ Len(ids) <= FeedAuthorCap
    /\ u \in Range(ids)
    /\ Range(ids) \subseteq {u} \cup followees

\* C15: for every follows answer of 0 to 200 rows, the candidate author set
\* has no duplicates, at most 200 members, holds the requesting user and
\* otherwise only followee ids of the answer; in feed.home the set passed to
\* the posts fetch is such a set over the followee ids the follows fetch
\* returned, all of them followees of edges accepted then, and every post of
\* the result has its user_id in that set.
C15_FeedAuthors ==
    /\ Finished("feedUserIds") =>
          CandidateSet(resp.content, FeedUser,
              {call.args.posts[i].followee_id : i \in 1..Len(call.args.posts)})
    /\ (call.tool = "feed.home" /\ Len(log) >= 2) =>
          /\ Len(log[1].data) <= FollowFetchLimit
          /\ CandidateSet(log[2].keys, call.args.user_id,
                 {log[1].data[i].followee_id : i \in 1..Len(log[1].data)})
          /\ Range(log[2].keys) \subseteq
                 {call.args.user_id} \cup AcceptedFollowees(log[1].seen, call.args.user_id)
    /\ (Finished("feed.home") /\ IsJsonBlock(resp)) =>
          \A i \in 1..Len(ResultData) : ResultData[i].user_id \in Range(log[2].keys)

\* 200 followees, all distinct: the set holds the user and the first 199
C15_Witness ==
    /\ Finished("feedUserIds")
    /\ Len(call.args.posts) = FollowFetchLimit
    /\ Cardinality({call.args.posts[i].followee_id : i \in 1..Len(call.args.posts)})
           = FollowFetchLimit
    /\ Len(resp.content) = FeedAuthorCap
    /\ resp.content[1] = FeedUser
    /\ AuthorId(FollowFetchLimit) \notin Range(resp.content)

====
